---- MODULE Spec2Model ----
(***************************************************************************)
(* Model of the Airbnb MCP server: the robots.txt access policy            *)
(* (fetchRobotsTxt / isPathAllowed), the tools/call request handler with   *)
(* its two tool handlers, and the policy's rule evaluation.                *)
(*                                                                         *)
(* Strings are sequences of tokens; a token stands for a run of characters *)
(* that the code never splits ("User-agent:" is one token of 11 chars).    *)
(* The empty string is <<>>.                                               *)
(***************************************************************************)
EXTENDS Integers, Sequences, FiniteSets, TLC

VARIABLES
    env,               \* process.env.IGNORE_ROBOTS_TXT
    argv,              \* process.argv.slice(2)
    robotsTxtContent,  \* module-level cache of the permission document
    srv,               \* position of runServer
    load,              \* load[l]: position of the fetchRobotsTxt invocation of owner l
    call,              \* call[c]: the tools/call request in slot c
    pin,               \* input of a stand-alone isPathAllowed evaluation
    pout,              \* its result
    tin,               \* input of a stand-alone tree transformation
    schema,            \* the schema argument, where the transformation takes one
    tout               \* its result

vars == <<env, argv, robotsTxtContent, srv, load, call, pin, pout, tin, schema, tout>>

serverVars == <<env, argv, robotsTxtContent, srv, load, call>>
policyVars == <<pin, pout>>
treeVars == <<tin, schema, tout>>
pureVars == <<policyVars, treeVars>>

----------------------------------------------------------------------------
(* Bounds *)

MaxCalls == 2        \* request slots handled concurrently
MaxLines == 3        \* lines of a permission document in the rule-evaluation check
MaxDepth == 2        \* nesting of containers below the root of a JSON tree
MaxResults == 2      \* search results on a page in the extraction check

----------------------------------------------------------------------------
(* String primitives (JavaScript String methods over token sequences) *)

NL == "\n"
Whitespace == {" ", "\t", "\r"}

\* String.prototype.startsWith
StartsWith(s, p) == Len(p) <= Len(s) /\ SubSeq(s, 1, Len(p)) = p

\* String.prototype.includes
Includes(s, sub) ==
    \E i \in 0..(Len(s) - Len(sub)) : SubSeq(s, i + 1, i + Len(sub)) = sub

RECURSIVE TrimStart(_)
TrimStart(s) ==
    IF s # <<>> /\ Head(s) \in Whitespace THEN TrimStart(Tail(s)) ELSE s

RECURSIVE TrimEnd(_)
TrimEnd(s) ==
    IF s # <<>> /\ s[Len(s)] \in Whitespace THEN TrimEnd(SubSeq(s, 1, Len(s) - 1)) ELSE s

\* String.prototype.trim
Trim(s) == TrimEnd(TrimStart(s))

\* String.prototype.toLowerCase on one token
LowerToken(t) ==
    CASE t \in {"User-agent:", "USER-AGENT:", "user-agent:"} -> "user-agent:"
      [] t \in {"Disallow:", "DISALLOW:", "disallow:"} -> "disallow:"
      [] t \in {"Allow:", "ALLOW:", "allow:"} -> "allow:"
      [] OTHER -> t

\* s.toLowerCase().startsWith(directive), directive a single token
LowerStartsWith(s, directive) == s # <<>> /\ LowerToken(Head(s)) = directive

\* String.prototype.split('\n')
RECURSIVE Split(_)
Split(s) ==
    IF \E i \in 1..Len(s) : s[i] = NL
    THEN LET i == CHOOSE k \in 1..Len(s) : s[k] = NL /\ \A j \in 1..(k - 1) : s[j] # NL
         IN  <<SubSeq(s, 1, i - 1)>> \o Split(SubSeq(s, i + 1, Len(s)))
    ELSE <<s>>

\* Array.prototype.join('\n'): how a document is laid out on the wire
RECURSIVE JoinLines(_)
JoinLines(ls) ==
    IF ls = <<>> THEN <<>>
    ELSE IF Len(ls) = 1 THEN ls[1]
    ELSE ls[1] \o <<NL>> \o JoinLines(Tail(ls))

----------------------------------------------------------------------------
(* Access policy: rule evaluation *)

USER_AGENT == <<"ModelContextProtocol", "/1.0", " ", "(Autonomous;", " ", "+https://github.com/modelcontextprotocol/servers)">>

\* Faulty variant: the section flag is ignored, every Disallow line applies.
RECURSIVE ScanLinesAnySection(_, _, _, _)
ScanLinesAnySection(lines, i, userAgentSection, path) ==
    IF i > Len(lines) THEN TRUE
    ELSE LET trimmedLine == Trim(lines[i]) IN
         IF StartsWith(trimmedLine, <<"#">>) \/ trimmedLine = <<>>
         THEN ScanLinesAnySection(lines, i + 1, userAgentSection, path)
         ELSE IF LowerStartsWith(trimmedLine, "user-agent:")
         THEN ScanLinesAnySection(lines, i + 1, TRUE, path)
         ELSE IF LowerStartsWith(trimmedLine, "disallow:")
                 /\ LET disallowedPath == Trim(Tail(trimmedLine))
                    IN  disallowedPath # <<>> /\ StartsWith(path, disallowedPath)
         THEN FALSE
         ELSE ScanLinesAnySection(lines, i + 1, userAgentSection, path)

\* Faulty variant: an empty Disallow value is applied as a prefix (it matches every path).
RECURSIVE ScanLinesEmptyPrefix(_, _, _, _)
ScanLinesEmptyPrefix(lines, i, userAgentSection, path) ==
    IF i > Len(lines) THEN TRUE
    ELSE LET trimmedLine == Trim(lines[i]) IN
         IF StartsWith(trimmedLine, <<"#">>) \/ trimmedLine = <<>>
         THEN ScanLinesEmptyPrefix(lines, i + 1, userAgentSection, path)
         ELSE IF LowerStartsWith(trimmedLine, "user-agent:")
         THEN LET agent == Trim(Tail(trimmedLine))
              IN  ScanLinesEmptyPrefix(lines, i + 1,
                                       agent = <<"*">> \/ Includes(USER_AGENT, agent), path)
         ELSE IF userAgentSection /\ LowerStartsWith(trimmedLine, "disallow:")
                 /\ StartsWith(path, Trim(Tail(trimmedLine)))
         THEN FALSE
         ELSE ScanLinesEmptyPrefix(lines, i + 1, userAgentSection, path)

\* The for loop of the built-in parser, from line i on.
RECURSIVE ScanLines(_, _, _, _)
ScanLines(lines, i, userAgentSection, path) ==
    IF i > Len(lines) THEN TRUE
    ELSE LET trimmedLine == Trim(lines[i]) IN
         IF StartsWith(trimmedLine, <<"#">>) \/ trimmedLine = <<>>
         THEN ScanLines(lines, i + 1, userAgentSection, path)
         ELSE IF LowerStartsWith(trimmedLine, "user-agent:")
         THEN LET agent == Trim(Tail(trimmedLine))
              IN  ScanLines(lines, i + 1,
                            agent = <<"*">> \/ Includes(USER_AGENT, agent), path)
         ELSE IF userAgentSection /\ LowerStartsWith(trimmedLine, "disallow:")
                 /\ LET disallowedPath == Trim(Tail(trimmedLine))
                    IN  disallowedPath # <<>> /\ StartsWith(path, disallowedPath)
         THEN FALSE
         ELSE ScanLines(lines, i + 1, userAgentSection, path)

\* isPathAllowed of the self-contained server (built-in parser).
isPathAllowedSimple(content, path) ==
    IF content = <<>> THEN TRUE
    ELSE ScanLines(Split(content), 1, FALSE, path)

\* robotsParser(url, content).isAllowed(path, USER_AGENT): the library's verdict,
\* taken from the rule-evaluation algorithm of the specification.
robotsIsAllowed(content, path) == ScanLines(Split(content), 1, FALSE, path)

\* Faulty variant: the empty-document shortcut is inverted into a deny.
isPathAllowedDenyEmpty(content, path) ==
    IF content = <<>> THEN FALSE
    ELSE robotsIsAllowed(content, path)

\* Faulty variant: no try/catch around the parser, its error leaves the function.
isPathAllowedUncaught(content, path, parserThrows) ==
    IF content = <<>> THEN [threw |-> FALSE, value |-> TRUE]
    ELSE IF parserThrows THEN [threw |-> TRUE, value |-> FALSE]
    ELSE [threw |-> FALSE, value |-> robotsIsAllowed(content, path)]

\* isPathAllowed of the server with its try/catch: parserThrows says whether
\* robotsParser(...) or isAllowed(...) throws on this document; the catch
\* block returns true.
isPathAllowedTry(content, path, parserThrows) ==
    IF content = <<>> THEN [threw |-> FALSE, value |-> TRUE]
    ELSE IF parserThrows THEN [threw |-> FALSE, value |-> TRUE]
    ELSE [threw |-> FALSE, value |-> robotsIsAllowed(content, path)]

\* isPathAllowed of the server, for a document the parser accepts.
isPathAllowed(content, path) ==
    IF content = <<>> THEN TRUE
    ELSE robotsIsAllowed(content, path)

----------------------------------------------------------------------------
(* Server: configuration, requests and results *)

Calls == 1..MaxCalls
STARTUP == 0                       \* owner of the load started by runServer
Owners == {STARTUP} \cup Calls

\* Faulty variant: only the environment variable is consulted.
IgnoreEnvOnly == env = "true"

IGNORE_ROBOTS_TXT == env = "true" \/ "--ignore-robots-txt" \in argv

robotsErrorMessage == "This path is disallowed by Airbnb's robots.txt to this User-agent. You may or may not want to run the server with '--ignore-robots-txt' args"

ToolNames == {"airbnb_search", "airbnb_listing_details"}

\* Permission documents the site may serve (bodies of /robots.txt).
DocEmpty == <<>>
DocNoSearch == JoinLines(<< <<"User-agent:", " ", "*">>, <<"Disallow:", " ", "/", "s", "/">> >>)
DocNoRooms == JoinLines(<< <<"User-agent:", " ", "*">>, <<"Disallow:", " ", "/", "rooms">> >>)
ServedDocs == {DocEmpty, DocNoSearch, DocNoRooms}

\* Pages the site may serve, by what the embedded-data extraction finds in them.
Pages == {"good", "no_script", "empty_script", "bad_json"}

GuestQuery == <<"?", "adults=1&children=0&infants=0&pets=0">>

\* searchUrl.pathname + searchUrl.search / listingUrl.pathname + listingUrl.search
PathOf(name) ==
    IF name = "airbnb_search"
    THEN <<"/", "s", "/", "Paris", "/", "homes">> \o GuestQuery
    ELSE <<"/", "rooms", "/", "42">> \o GuestQuery

NoText == [format |-> "none", error |-> "", url |-> <<>>]
NoResult == [kind |-> "none", isError |-> FALSE, text |-> NoText]

\* JSON.stringify({error, url...}, null, 2) / JSON.stringify({searchUrl, ...})
JsonText(error, url) == [format |-> "json", error |-> error, url |-> url]
PlainText(error) == [format |-> "plain", error |-> error, url |-> <<>>]

ToolResult(isError, text) == [kind |-> "result", isError |-> isError, text |-> text]
\* throw new McpError(...): the request ends in a protocol-level error
McpError(code) == [kind |-> "McpError", isError |-> TRUE, text |-> PlainText(code)]

\* tools/call requests a client may send: params.name, whether params.arguments
\* is present, and arguments.ignoreRobotsText.
Requests ==
    {[name |-> n, hasArgs |-> TRUE, ignoreRobotsText |-> i] : n \in ToolNames, i \in BOOLEAN}
    \cup {[name |-> "unknown_tool", hasArgs |-> TRUE, ignoreRobotsText |-> FALSE],
          [name |-> "", hasArgs |-> TRUE, ignoreRobotsText |-> FALSE],
          [name |-> "airbnb_search", hasArgs |-> FALSE, ignoreRobotsText |-> FALSE]}

IdleCall ==
    [pc |-> "idle", name |-> "", hasArgs |-> FALSE, ignoreRobotsText |-> FALSE,
     policy |-> "unchecked", result |-> NoResult]

Finish(rec, policy, result) ==
    [rec EXCEPT !.pc = "done", !.policy = policy, !.result = result]

\* Faulty variant: the generic catch answers with plain text instead of a JSON document.
CatchAllPlain(rec, message) ==
    Finish(rec, rec.policy, ToolResult(TRUE, PlainText(message)))

\* catch block of the CallToolRequestSchema handler, for an error that is
\* not an McpError.
CatchAll(rec, message) ==
    Finish(rec, rec.policy, ToolResult(TRUE, JsonText(message, <<>>)))

\* Faulty variant: a disallowed path is reported by throwing a protocol error.
BlockedThrows(rec) ==
    Finish(rec, "denied", McpError("InvalidRequest"))

\* The early return of a tool handler when the policy check fails.
Blocked(rec) ==
    Finish(rec, "denied", ToolResult(TRUE, JsonText(robotsErrorMessage, PathOf(rec.name))))

\* Faulty variant: the handler fetches without consulting the policy.
HandleToolNoCheck(rec, content, adultsNull) ==
    IF adultsNull
    THEN CatchAll(rec, "TypeError")
    ELSE [rec EXCEPT !.pc = "pagefetch",
                     !.policy = IF rec.ignoreRobotsText THEN "skipped" ELSE "allowed"]

\* Faulty variant: the per-call override is not honoured.
HandleToolNoOverride(rec, content, adultsNull) ==
    IF adultsNull
    THEN CatchAll(rec, "TypeError")
    ELSE IF ~isPathAllowed(content, PathOf(rec.name))
    THEN Blocked(rec)
    ELSE [rec EXCEPT !.pc = "pagefetch", !.policy = "allowed"]

\* handleAirbnbSearch / handleAirbnbListingDetails up to the first await:
\* URL construction, policy check, start of the page fetch. adultsNull: the
\* arguments carry adults: null, read here for the first time.
HandleTool(rec, content, adultsNull) ==
    IF adultsNull
    THEN CatchAll(rec, "TypeError")            \* adults.toString() on null
    ELSE IF ~rec.ignoreRobotsText /\ ~isPathAllowed(content, PathOf(rec.name))
    THEN Blocked(rec)
    ELSE [rec EXCEPT !.pc = "pagefetch",
                     !.policy = IF rec.ignoreRobotsText THEN "skipped" ELSE "allowed"]

\* The switch of the request handler, run once the rule set is "ensured".
Dispatch(rec, content, adultsNull) ==
    IF rec.name \in ToolNames
    THEN HandleTool(rec, content, adultsNull)
    ELSE Finish(rec, rec.policy, McpError("MethodNotFound"))

----------------------------------------------------------------------------
(* Server: fetchRobotsTxt *)

NoTree == [t |-> "null", v |-> 0]
NoTreeOutput ==
    [pc |-> "off",
     clean |-> [threw |-> FALSE, value |-> NoTree],    \* tree after cleanObject
     clean2 |-> [threw |-> FALSE, value |-> NoTree],   \* after a second cleanObject
     pick |-> NoTree,                                  \* pickBySchema's return value
     pick2 |-> NoTree,                                 \* of a second pickBySchema
     flat |-> NoTree,                                  \* flattenArraysInObject's
     result |-> [isError |-> FALSE, error |-> "", items |-> <<>>]]  \* of the extraction
NoPolicyInput == [lines |-> <<>>, path |-> <<>>]
NoPolicyOutput ==
    [pc |-> "off", simple |-> TRUE, server |-> TRUE,
     parserThrows |-> FALSE, guarded |-> [threw |-> FALSE, value |-> TRUE]]

Init ==
    /\ env \in {"true", "false", "unset"}
    /\ argv \in {{}, {"--ignore-robots-txt"}}
    /\ robotsTxtContent = <<>>
    /\ srv = "starting"
    /\ load = [l \in Owners |-> "none"]
    /\ call = [c \in Calls |-> IdleCall]
    /\ pin = NoPolicyInput
    /\ pout = NoPolicyOutput
    /\ tin = NoTree
    /\ schema = NoTree
    /\ tout = NoTreeOutput

\* Faulty variant: the request handler reloads on every call.
NeedsLoadAlways(content) == ~IGNORE_ROBOTS_TXT

\* "Ensure robots.txt is loaded": the guard of the lazy load in the request handler.
NeedsLoad(content) == content = <<>> /\ ~IGNORE_ROBOTS_TXT

\* The early return of fetchRobotsTxt.
SkipFetch == IGNORE_ROBOTS_TXT

\* What the awaiting caller does when fetchRobotsTxt of owner l has returned:
\* runServer connects the transport, a request goes on to its switch.
Resume(l, content, adultsNull) ==
    /\ load' = [load EXCEPT ![l] = "none"]
    /\ IF l = STARTUP
       THEN srv' = "connected" /\ UNCHANGED call
       ELSE call' = [call EXCEPT ![l] = Dispatch(call[l], content, adultsNull)] /\ UNCHANGED srv

\* Faulty variant: fetchRobotsTxt() is started but not awaited before connect.
RunServerNoAwait ==
    /\ srv = "starting"
    /\ srv' = "connected"
    /\ load' = [load EXCEPT ![STARTUP] = IF SkipFetch THEN "none" ELSE "fetch"]
    /\ UNCHANGED <<env, argv, robotsTxtContent, call, pureVars>>

\* runServer: await fetchRobotsTxt(), entered at process start.
RunServer ==
    /\ srv = "starting"
    /\ IF SkipFetch
       THEN srv' = "connected" /\ UNCHANGED load          \* skipped by configuration
       ELSE srv' = "loading" /\ load' = [load EXCEPT ![STARTUP] = "fetch"]
    /\ UNCHANGED <<env, argv, robotsTxtContent, call, pureVars>>

\* Faulty variant: no catch; the error reaches the awaiting caller, the cache is untouched.
LoadCatchRethrow(l, adultsNull) ==
    /\ UNCHANGED robotsTxtContent
    /\ load' = [load EXCEPT ![l] = "none"]
    /\ IF l = STARTUP
       THEN srv' = "exited" /\ UNCHANGED call
       ELSE call' = [call EXCEPT ![l] = CatchAll(@, "fetch failed")] /\ UNCHANGED srv

\* The catch block of fetchRobotsTxt: warn, empty the cache, return normally.
LoadCatch(l, adultsNull) ==
    /\ robotsTxtContent' = <<>>
    /\ Resume(l, <<>>, adultsNull)

\* await fetch(robots.txt) resolves with a response: clearTimeout, status check.
LoadResponse(l, ok, adultsNull) ==
    /\ load[l] = "fetch"
    /\ IF ok
       THEN /\ load' = [load EXCEPT ![l] = "body"]        \* await response.text()
            /\ UNCHANGED <<robotsTxtContent, srv, call>>
       ELSE LoadCatch(l, adultsNull)                      \* throw new Error(HTTP ...)
    /\ UNCHANGED <<env, argv, pureVars>>

\* await fetch(robots.txt) rejects: network error, or the 10 s timer aborts it.
LoadFetchFail(l, why, adultsNull) ==
    /\ load[l] = "fetch"
    /\ why \in {"network", "timeout"}
    /\ LoadCatch(l, adultsNull)
    /\ UNCHANGED <<env, argv, pureVars>>

\* await response.text() resolves with the document.
LoadBodyDone(l, doc, adultsNull) ==
    /\ load[l] = "body"
    /\ robotsTxtContent' = doc
    /\ Resume(l, doc, adultsNull)
    /\ UNCHANGED <<env, argv, pureVars>>

\* await response.text() rejects.
LoadBodyFail(l, adultsNull) ==
    /\ load[l] = "body"
    /\ LoadCatch(l, adultsNull)
    /\ UNCHANGED <<env, argv, pureVars>>

----------------------------------------------------------------------------
(* Server: the tools/call request handler *)

\* A request arrives in a free slot: validation, then the lazy load or the switch.
Receive(c, req, adultsNull) ==
    /\ srv = "connected"
    /\ call[c].pc = "idle"
    /\ LET rec == [IdleCall EXCEPT !.name = req.name, !.hasArgs = req.hasArgs,
                                   !.ignoreRobotsText = req.ignoreRobotsText]
       IN  IF req.name = "" \/ ~req.hasArgs
           THEN /\ call' = [call EXCEPT ![c] = Finish(rec, "unchecked", McpError("InvalidParams"))]
                /\ UNCHANGED load
           ELSE IF NeedsLoad(robotsTxtContent) /\ ~SkipFetch
           THEN /\ call' = [call EXCEPT ![c] = [rec EXCEPT !.pc = "loading"]]
                /\ load' = [load EXCEPT ![c] = "fetch"]
           ELSE /\ call' = [call EXCEPT ![c] = Dispatch(rec, robotsTxtContent, adultsNull)]
                /\ UNCHANGED load
    /\ UNCHANGED <<env, argv, robotsTxtContent, srv, pureVars>>

FetchFailure(rec, message) ==
    Finish(rec, rec.policy, ToolResult(TRUE, JsonText(message, PathOf(rec.name))))

\* fetchWithUserAgent: the page fetch resolves; a non-success status throws.
PageResponse(c, ok) ==
    /\ call[c].pc = "pagefetch"
    /\ call' = [call EXCEPT ![c] =
                  IF ok THEN [@ EXCEPT !.pc = "pagebody"]
                  ELSE FetchFailure(@, "fetch failed")]
    /\ UNCHANGED <<env, argv, robotsTxtContent, srv, load, pureVars>>

\* fetchWithUserAgent: the page fetch rejects (network error, 30 s abort).
PageFetchFail(c, why) ==
    /\ call[c].pc = "pagefetch"
    /\ why \in {"network", "Request timeout"}
    /\ call' = [call EXCEPT ![c] = FetchFailure(@, "fetch failed")]
    /\ UNCHANGED <<env, argv, robotsTxtContent, srv, load, pureVars>>

\* await response.text() resolves: extraction of the embedded data, result.
PageBodyDone(c, page) ==
    /\ call[c].pc = "pagebody"
    /\ call' = [call EXCEPT ![c] =
                  IF page = "good"
                  THEN Finish(@, @.policy, ToolResult(FALSE, JsonText("", PathOf(@.name))))
                  ELSE Finish(@, @.policy,
                              ToolResult(TRUE, JsonText("Failed to parse", PathOf(@.name))))]
    /\ UNCHANGED <<env, argv, robotsTxtContent, srv, load, pureVars>>

\* await response.text() rejects.
PageBodyFail(c) ==
    /\ call[c].pc = "pagebody"
    /\ call' = [call EXCEPT ![c] = FetchFailure(@, "fetch failed")]
    /\ UNCHANGED <<env, argv, robotsTxtContent, srv, load, pureVars>>

\* The response has been sent; the slot takes the next request.
Reply(c) ==
    /\ call[c].pc = "done"
    /\ call' = [call EXCEPT ![c] = IdleCall]
    /\ UNCHANGED <<env, argv, robotsTxtContent, srv, load, pureVars>>

Next ==
    \/ RunServer
    \/ \E l \in Owners, ok, adultsNull \in BOOLEAN : LoadResponse(l, ok, adultsNull)
    \/ \E l \in Owners, why \in {"network", "timeout"}, adultsNull \in BOOLEAN :
          LoadFetchFail(l, why, adultsNull)
    \/ \E l \in Owners, doc \in ServedDocs, adultsNull \in BOOLEAN :
          LoadBodyDone(l, doc, adultsNull)
    \/ \E l \in Owners, adultsNull \in BOOLEAN : LoadBodyFail(l, adultsNull)
    \/ \E c \in Calls, req \in Requests, adultsNull \in BOOLEAN : Receive(c, req, adultsNull)
    \/ \E c \in Calls, ok \in BOOLEAN : PageResponse(c, ok)
    \/ \E c \in Calls, why \in {"network", "Request timeout"} : PageFetchFail(c, why)
    \/ \E c \in Calls, page \in Pages : PageBodyDone(c, page)
    \/ \E c \in Calls : PageBodyFail(c)
    \/ \E c \in Calls : Reply(c)

Spec == Init /\ [][Next]_vars

----------------------------------------------------------------------------
(* Stand-alone evaluation of the policy on bounded documents *)

\* Lines a permission document is made of: the text as served, and what the
\* robots-exclusion format says the line is (kind, value).
PolicyLines ==
    { [text |-> <<"User-agent:", " ", "*">>,             kind |-> "agent",    value |-> <<"*">>],
      [text |-> <<"user-agent:", "ModelContextProtocol">>, kind |-> "agent",  value |-> <<"ModelContextProtocol">>],
      [text |-> <<"User-agent:", " ", "Googlebot", "\r">>, kind |-> "agent",  value |-> <<"Googlebot">>],
      [text |-> <<"User-agent:">>,                        kind |-> "agent",    value |-> <<>>],
      [text |-> <<"Disallow:", " ", "/", "s", "/">>,      kind |-> "disallow", value |-> <<"/", "s", "/">>],
      [text |-> <<" ", "DISALLOW:", "/", "rooms", " ">>,  kind |-> "disallow", value |-> <<"/", "rooms">>],
      [text |-> <<"Disallow:", " ">>,                     kind |-> "disallow", value |-> <<>>],
      [text |-> <<"Allow:", " ", "/">>,                   kind |-> "allow",    value |-> <<"/">>],
      [text |-> <<"#", " ", "Disallow:", " ", "/">>,      kind |-> "comment",  value |-> <<>>],
      [text |-> <<>>,                                     kind |-> "blank",    value |-> <<>>] }

PolicyDocs == UNION {[1..n -> PolicyLines] : n \in 0..MaxLines}

PolicyPaths == {PathOf("airbnb_search"), PathOf("airbnb_listing_details"), <<"/", "s">>}

\* The document as one string: its lines joined by "\n".
ContentOf(lines) == JoinLines([i \in 1..Len(lines) |-> lines[i].text])

InitPolicy ==
    /\ env = "unset"
    /\ argv = {}
    /\ srv = "starting"
    /\ load = [l \in Owners |-> "none"]
    /\ call = [c \in Calls |-> IdleCall]
    /\ pin \in [lines : PolicyDocs, path : PolicyPaths]
    /\ robotsTxtContent = ContentOf(pin.lines)
    /\ pout = [NoPolicyOutput EXCEPT !.pc = "ready"]
    /\ tin = NoTree
    /\ schema = NoTree
    /\ tout = NoTreeOutput

\* One call of isPathAllowed(path) with the document as the cached content,
\* by the built-in parser and by the server's wrapper; the wrapper also with
\* a parser that may throw.
CheckPath ==
    /\ pout.pc = "ready"
    /\ \E parserThrows \in BOOLEAN :
          pout' = [pc |-> "done",
                   simple |-> isPathAllowedSimple(robotsTxtContent, pin.path),
                   server |-> isPathAllowed(robotsTxtContent, pin.path),
                   parserThrows |-> parserThrows,
                   guarded |-> isPathAllowedTry(robotsTxtContent, pin.path, parserThrows)]
    /\ UNCHANGED <<serverVars, pin, treeVars>>

NextPolicy == CheckPath

SpecPolicy == InitPolicy /\ [][NextPolicy]_vars

----------------------------------------------------------------------------
(* Properties of the access policy and the request handler *)

NoLoadInFlight == \A l \in Owners : load[l] = "none"

\* Call c starts the fetch of its target page in this step.
StartsPageFetch(c) == call[c].pc # "pagefetch" /\ call'[c].pc = "pagefetch"

\* Call c gets its policy decision, or skips the check, in this step.
Decided(c) == call[c].policy = "unchecked" /\ call'[c].policy # "unchecked"

\* C1: for a tool call without the per-call override and with ignore-all mode
\* off, the step that starts the fetch of the target page is the step of the
\* policy check, and it is taken only if isPathAllowed(path) is true of the rule
\* set in force at that step; a page is never fetched for a disallowed path.
C1_CheckBeforeFetch ==
    [][\A c \in Calls :
          (StartsPageFetch(c) /\ ~call'[c].ignoreRobotsText /\ ~IGNORE_ROBOTS_TXT)
             => /\ Decided(c)
                /\ call'[c].policy = "allowed"
                /\ isPathAllowed(robotsTxtContent', PathOf(call'[c].name))]_vars

\* C1 witness: a call without override is fetching its page after a non-empty
\* rule set allowed its path.
C1_Witness ==
    \E c \in Calls :
        /\ ~IGNORE_ROBOTS_TXT /\ robotsTxtContent # <<>>
        /\ call[c].pc = "pagefetch" /\ ~call[c].ignoreRobotsText
        /\ call[c].policy = "allowed"

\* C2 as stated: once the server is connected (its first load attempt has
\* completed, successfully or not) the cached rule set never changes and no
\* tool call starts a fetch of the permission document.
C2_LoadedIsTerminal ==
    [][srv = "connected"
          => /\ robotsTxtContent' = robotsTxtContent
             /\ \A l \in Owners : load[l] = "none" => load'[l] = "none"]_vars

\* C2 amended: a tool call starts a load only when it finds the rule set empty
\* with ignore-all mode off (so a failed load, or an empty document, is
\* retried by the next call); once the rule set is non-empty and no load is in
\* flight the state is terminal: the rule set never changes and no later tool
\* call fetches the permission document.
C2_NonEmptyIsTerminal ==
    [][/\ \A c \in Calls :
             (load[c] = "none" /\ load'[c] # "none")
                => robotsTxtContent = <<>> /\ ~IGNORE_ROBOTS_TXT
       /\ (robotsTxtContent # <<>> /\ NoLoadInFlight)
             => robotsTxtContent' = robotsTxtContent /\ NoLoadInFlight']_vars

\* C2 witness: the rule set is loaded and non-empty, nothing is in flight, and
\* a call is being served from the cache.
C2_Witness ==
    /\ robotsTxtContent # <<>> /\ NoLoadInFlight /\ srv = "connected"
    /\ \E c \in Calls : call[c].pc \in {"pagefetch", "pagebody"}

\* C3: fetchRobotsTxt is fail-open and never raises. A load that ends in its
\* fetch phase (network error, non-success status, timeout) leaves the rule set
\* empty and its caller goes on normally (the server connects, the request
\* goes to its switch); the same holds for a load that ends while reading the
\* body, which leaves the served document or the empty rule set. While the
\* rule set is empty every path is allowed, and it stays empty until a body
\* read of some load completes.
C3_FailOpen ==
    [][/\ \A l \in Owners :
             (load[l] # "none" /\ load'[l] = "none")
                => /\ load[l] = "fetch" => robotsTxtContent' = <<>>
                   /\ l = STARTUP => srv' = "connected"
                   /\ l \in Calls =>
                        \E a \in BOOLEAN : call'[l] = Dispatch(call[l], robotsTxtContent', a)
                   /\ robotsTxtContent' = <<>> =>
                        \A n \in ToolNames : isPathAllowed(robotsTxtContent', PathOf(n))
       /\ (robotsTxtContent = <<>> /\ robotsTxtContent' # <<>>)
             => \E l \in Owners : load[l] = "body" /\ load'[l] = "none"]_vars

\* C3 witness: the server is connected with robots.txt respected, its load is
\* over, and the rule set is empty.
C3_Witness ==
    /\ ~IGNORE_ROBOTS_TXT /\ srv = "connected" /\ NoLoadInFlight
    /\ robotsTxtContent = <<>>
    /\ \A c \in Calls : call[c].pc = "idle"

\* C4: with an empty rule set (never loaded, load failed, empty document)
\* isPathAllowed is true of every path, and no call is ever denied by a check
\* made against the empty rule set.
C4_EmptyAllowsAll ==
    /\ [](robotsTxtContent = <<>>
            => \A p \in PolicyPaths : isPathAllowed(robotsTxtContent, p))
    /\ [][\A c \in Calls :
             (Decided(c) /\ call'[c].policy = "denied") => robotsTxtContent' # <<>>]_vars

\* C4 witness: a call without override passed the check against the empty rule
\* set and is fetching its page.
C4_Witness ==
    \E c \in Calls :
        /\ ~IGNORE_ROBOTS_TXT /\ robotsTxtContent = <<>> /\ NoLoadInFlight
        /\ call[c].pc = "pagefetch" /\ call[c].policy = "allowed"


\* The document has exactly one section, "User-agent: *", and apart from
\* comments and blank lines it holds only Disallow lines, all inside the section.
OnlyWildcardSection(lines) ==
    \E u \in 1..Len(lines) :
        /\ lines[u].kind = "agent" /\ lines[u].value = <<"*">>
        /\ \A i \in 1..Len(lines) :
              /\ i # u => lines[i].kind \in {"disallow", "comment", "blank"}
              /\ lines[i].kind = "disallow" => i > u

\* Some Disallow line of the document has a non-empty value that path starts with.
HitsDisallowPrefix(lines, path) ==
    \E i \in 1..Len(lines) :
        /\ lines[i].kind = "disallow"
        /\ lines[i].value # <<>>
        /\ StartsWith(path, lines[i].value)

ScenarioD == << [text |-> <<"User-agent:", " ", "*">>, kind |-> "agent", value |-> <<"*">>],
                [text |-> <<"Disallow:", " ", "/", "s", "/">>, kind |-> "disallow", value |-> <<"/", "s", "/">>] >>

\* C5: for a document whose only section is "User-agent: *" with Disallow
\* lines, isPathAllowed(path) is false exactly when path starts with a
\* non-empty Disallow prefix; with "Disallow: /s/" the search path is
\* disallowed and the listing path allowed.
C5_WildcardPrefixRule ==
    pout.pc = "done" =>
        /\ OnlyWildcardSection(pin.lines) =>
              /\ pout.simple = ~HitsDisallowPrefix(pin.lines, pin.path)
              /\ pout.server = ~HitsDisallowPrefix(pin.lines, pin.path)
        /\ pin.lines = ScenarioD =>
              /\ pin.path = PathOf("airbnb_search") => ~pout.simple /\ ~pout.server
              /\ pin.path = PathOf("airbnb_listing_details") => pout.simple /\ pout.server

\* C5 witness: a wildcard section with an empty Disallow and "Disallow: /s/"
\* was evaluated for the search path and disallowed it.
C5_Witness ==
    /\ pout.pc = "done" /\ ~pout.simple /\ ~pout.server
    /\ Len(pin.lines) = 3 /\ OnlyWildcardSection(pin.lines)
    /\ pin.lines[2].kind = "disallow" /\ pin.lines[2].value = <<>>
    /\ pin.path = PathOf("airbnb_search")

\* C6: in ignore-all mode (env IGNORE_ROBOTS_TXT = "true" or the argument
\* --ignore-robots-txt) the permission document is never fetched, at startup
\* or on a tool call, the rule set stays empty, and no call is denied.
C6_IgnoreAllNeverFetches ==
    (env = "true" \/ "--ignore-robots-txt" \in argv)
        => /\ NoLoadInFlight
           /\ srv # "loading"
           /\ robotsTxtContent = <<>>
           /\ \A c \in Calls : call[c].policy # "denied" /\ call[c].pc # "loading"

\* C6 witness: started with the argument only, a call without override has
\* been answered with data.
C6_Witness ==
    /\ env # "true" /\ "--ignore-robots-txt" \in argv
    /\ \E c \in Calls :
          /\ call[c].pc = "done" /\ ~call[c].ignoreRobotsText
          /\ call[c].result.kind = "result" /\ ~call[c].result.isError

\* Call c is an overriding call that takes a step.
OverridingStep(c) ==
    /\ call[c].ignoreRobotsText \/ call'[c].ignoreRobotsText
    /\ call'[c] # call[c] \/ load'[c] # load[c]

\* C7 as stated: no step of a tool call with ignoreRobotsText = true changes
\* the ignore-all flag or the cached rule set.
C7_OverrideLeavesRuleSet ==
    [][\A c \in Calls :
          OverridingStep(c)
             => /\ env' = env /\ argv' = argv
                /\ robotsTxtContent' = robotsTxtContent]_vars

\* C7 amended: a tool call with ignoreRobotsText = true skips the policy check
\* for that call only; it never changes the ignore-all flag, and the tool
\* handler's own steps never change the cached rule set: the rule set can
\* change during such a call only through the lazy load the request handler
\* runs for every call that finds the rule set empty. A call without the
\* override is decided by isPathAllowed of the rule set in force at its check.
C7_OverrideSkipsCheckOnly ==
    [][\A c \in Calls :
          /\ OverridingStep(c)
                => /\ env' = env /\ argv' = argv
                   /\ load[c] = "none" => robotsTxtContent' = robotsTxtContent
                   /\ call'[c].policy \in {"unchecked", "skipped"}
                   /\ StartsPageFetch(c) => call'[c].policy = "skipped"
          /\ (Decided(c) /\ ~call'[c].ignoreRobotsText
                /\ call'[c].policy \in {"allowed", "denied"})
                => (call'[c].policy = "allowed"
                      <=> isPathAllowed(robotsTxtContent', PathOf(call'[c].name)))]_vars

\* C7 witness: an overriding call is fetching a page the rule set disallows
\* while another call without the override has been denied.
C7_Witness ==
    \E c, d \in Calls :
        /\ call[c].ignoreRobotsText /\ call[c].pc = "pagefetch"
        /\ call[c].policy = "skipped"
        /\ ~isPathAllowed(robotsTxtContent, PathOf(call[c].name))
        /\ ~call[d].ignoreRobotsText /\ call[d].policy = "denied"

\* C8: a call denied by the policy check does not raise; it ends in a normal
\* tool result with isError = true whose text is a JSON document carrying the
\* robots.txt disallow message and the requested URL.
C8_DeniedIsToolResult ==
    \A c \in Calls :
        call[c].policy = "denied"
            => /\ call[c].pc = "done"
               /\ call[c].result.kind = "result"
               /\ call[c].result.isError
               /\ call[c].result.text.format = "json"
               /\ call[c].result.text.error = robotsErrorMessage
               /\ call[c].result.text.url = PathOf(call[c].name)

\* C8 witness: a listing-details call has been denied.
C8_Witness ==
    \E c \in Calls :
        /\ call[c].name = "airbnb_listing_details"
        /\ call[c].policy = "denied" /\ call[c].pc = "done"

\* C9: a tools/call request that names one of the two tools and carries an
\* arguments object, once answered, has a result envelope whose text is a JSON
\* document, never a protocol-level error, whatever the policy check, the
\* page fetch or the embedded-JSON parse came to.
C9_AlwaysJsonResult ==
    \A c \in Calls :
        (call[c].pc = "done" /\ call[c].name \in ToolNames /\ call[c].hasArgs)
            => /\ call[c].result.kind = "result"
               /\ call[c].result.text.format = "json"

\* C9 witness: a tool handler threw before its own try block (adults: null)
\* and the request still ended in a JSON error result.
C9_Witness ==
    \E c \in Calls :
        /\ call[c].pc = "done" /\ call[c].name \in ToolNames /\ call[c].hasArgs
        /\ call[c].result.isError /\ call[c].result.text.error = "TypeError"

\* Line i of the document is in a section that applies to the server: the
\* nearest User-agent line above it names "*" or a part of the server's
\* agent string.
InMatchingSection(lines, i) ==
    \E u \in 1..(i - 1) :
        /\ lines[u].kind = "agent"
        /\ \A j \in (u + 1)..(i - 1) : lines[j].kind # "agent"
        /\ lines[u].value = <<"*">> \/ Includes(USER_AGENT, lines[u].value)

\* C19: the built-in isPathAllowed disallows a path exactly when some
\* Disallow line with a non-empty prefix of the path lies in a matching
\* section (the most recent User-agent line names "*" or a string contained
\* in the server's agent string); Disallow lines in other sections or before
\* any User-agent line never disallow.
C19_SectionScopedDisallow ==
    pout.pc = "done" =>
        (pout.simple = ~\E i \in 1..Len(pin.lines) :
                          /\ pin.lines[i].kind = "disallow"
                          /\ pin.lines[i].value # <<>>
                          /\ StartsWith(pin.path, pin.lines[i].value)
                          /\ InMatchingSection(pin.lines, i))

\* C19 witness: a Disallow prefix of the path stands before any User-agent
\* line and again in a section for another agent, and the path is allowed.
C19_Witness ==
    /\ pout.pc = "done" /\ pout.simple
    /\ Len(pin.lines) = 3
    /\ pin.lines[1].kind = "disallow" /\ StartsWith(pin.path, pin.lines[1].value)
    /\ pin.lines[1].value # <<>>
    /\ pin.lines[2].kind = "agent" /\ pin.lines[2].value = <<"Googlebot">>
    /\ pin.lines[3] = pin.lines[1]

\* C20: isPathAllowed only reads the cached rule set: the call starts no
\* load, leaves the cache as it was and does not throw; when the parser
\* throws on the document the result is true, as for the empty document.
C20_PureRead ==
    [][(pout.pc = "ready" /\ pout'.pc = "done")
          => /\ robotsTxtContent' = robotsTxtContent
             /\ load' = load
             /\ ~pout'.guarded.threw
             /\ pout'.parserThrows
                   => pout'.guarded.value = isPathAllowedTry(<<>>, pin.path, FALSE).value]_vars

\* C20 witness: the parser threw on a non-empty document that the built-in
\* scan would have held against the path, and the call returned true.
C20_Witness ==
    /\ pout.pc = "done" /\ pout.parserThrows
    /\ robotsTxtContent # <<>> /\ ~pout.simple
    /\ pout.guarded = [threw |-> FALSE, value |-> TRUE]

\* C17: concurrent loads are harmless: a load that fails while another
\* load's document is already stored leaves that document in place; a stored
\* rule set is never replaced by the empty, permit-all one.
C17_StoredRuleSetKept ==
    [][\A l \in Owners :
          (robotsTxtContent # <<>> /\ load[l] = "fetch" /\ load'[l] = "none")
             => robotsTxtContent' = robotsTxtContent]_vars

\* C18: every load ends: while a load is suspended, on the request or on the
\* reading of its body, the abort by the timeout is a step it can take, which
\* ends it with the empty rule set.
C18_TimeoutBoundsLoad ==
    \A l \in Owners :
        load[l] # "none" => ENABLED (\E adultsNull \in BOOLEAN : LoadFetchFail(l, "timeout", adultsNull))

\* C28: the transport is connected only when the load started by runServer
\* has returned (document stored, failure caught, or skipped in ignore-all
\* mode): the server is never connected, and no request is in a slot, while
\* that load is in flight.
C28_FirstLoadBeforeConnect ==
    /\ [](load[STARTUP] # "none"
            => srv = "loading" /\ \A c \in Calls : call[c].pc = "idle")
    /\ [][(srv # "connected" /\ srv' = "connected")
             => /\ load'[STARTUP] = "none"
                /\ (srv = "loading" /\ load[STARTUP] # "none") \/ (srv = "starting" /\ SkipFetch)]_vars

\* C28 witness: the first load stored a document, the transport was
\* connected after it, and a request is being served.
C28_Witness ==
    /\ srv = "connected" /\ ~IGNORE_ROBOTS_TXT
    /\ robotsTxtContent # <<>> /\ NoLoadInFlight
    /\ \E c \in Calls : call[c].pc = "pagebody"
    /\ \E c \in Calls : call[c].pc = "idle"

----------------------------------------------------------------------------
(* JSON values and cleanObject *)

\* A JSON-like value is a tagged record: t is what typeof / Array.isArray /
\* === null tell apart, v the payload. A string is a sequence of tokens. An
\* object is the sequence of its own [k, v] properties in Object.keys order;
\* an array the sequence of its slots, a deleted slot being a hole.
JNull == [t |-> "null", v |-> 0]
JHole == [t |-> "hole", v |-> 0]
JBool(b) == [t |-> "bool", v |-> b]
JNum(n) == [t |-> "num", v |-> n]
JStr(s) == [t |-> "str", v |-> s]
JArr(slots) == [t |-> "arr", v |-> slots]
JObj(props) == [t |-> "obj", v |-> props]
Prop(key, value) == [k |-> key, v |-> value]

\* typeof x === "object" for a value that is not null
IsObject(x) == x.t \in {"obj", "arr"}

\* Faulty variant of !x: empty containers count as falsy too.
FalsyOrEmpty(x) ==
    \/ x.t \in {"null", "hole"}
    \/ x.t = "bool" /\ ~x.v
    \/ x.t = "num" /\ x.v = 0
    \/ x.t \in {"str", "obj", "arr"} /\ x.v = <<>>

\* !x
Falsy(x) ==
    \/ x.t \in {"null", "hole"}
    \/ x.t = "bool" /\ ~x.v
    \/ x.t = "num" /\ x.v = 0
    \/ x.t = "str" /\ x.v = <<>>

\* The test of cleanObject on one property: it survives the delete.
Survives(p) == ~(Falsy(p.v) \/ p.k = "__typename")

\* Faulty variant of the test: the key is not looked at.
SurvivesByValue(p) == ~Falsy(p.v)

\* Faulty variant: falsy values and __typename are deleted at the top level only.
CleanShallow(obj) ==
    IF obj.t = "obj"
    THEN JObj(SelectSeq(obj.v, Survives))
    ELSE IF obj.t = "arr"
    THEN JArr([i \in 1..Len(obj.v) |-> IF Falsy(obj.v[i]) THEN JHole ELSE obj.v[i]])
    ELSE obj

\* A slot that holds a truthy element.
Truthy(x) == ~Falsy(x)

\* Faulty variant: falsy elements are filtered out of an array, which gets shorter.
RECURSIVE CleanFilterArrays(_)
CleanFilterArrays(obj) ==
    IF obj.t = "obj"
    THEN LET kept == SelectSeq(obj.v, Survives)
         IN  JObj([i \in 1..Len(kept) |->
                     IF IsObject(kept[i].v)
                     THEN Prop(kept[i].k, CleanFilterArrays(kept[i].v))
                     ELSE kept[i]])
    ELSE IF obj.t = "arr"
    THEN LET kept == SelectSeq(obj.v, Truthy)
         IN  JArr([i \in 1..Len(kept) |->
                     IF IsObject(kept[i]) THEN CleanFilterArrays(kept[i]) ELSE kept[i]])
    ELSE obj

\* The state of obj after Object.keys(obj).forEach(...) of cleanObject, for
\* an obj that Object.keys accepts: a property is deleted if its value is
\* falsy or its key is __typename, an object value is cleaned in place; a
\* deleted array index leaves a hole; a string or number has no key to delete.
RECURSIVE Clean(_)
Clean(obj) ==
    IF obj.t = "obj"
    THEN LET kept == SelectSeq(obj.v, Survives)
         IN  JObj([i \in 1..Len(kept) |->
                     IF IsObject(kept[i].v)
                     THEN Prop(kept[i].k, Clean(kept[i].v))
                     ELSE kept[i]])
    ELSE IF obj.t = "arr"
    THEN JArr([i \in 1..Len(obj.v) |->
                 IF Falsy(obj.v[i]) THEN JHole
                 ELSE IF IsObject(obj.v[i]) THEN Clean(obj.v[i])
                 ELSE obj.v[i]])
    ELSE obj

\* cleanObject(obj): Object.keys throws a TypeError on null and undefined.
cleanObject(obj) ==
    IF obj.t \in {"null", "hole"}
    THEN [threw |-> TRUE, value |-> obj]
    ELSE [threw |-> FALSE, value |-> Clean(obj)]

\* Object.keys(obj) of a mapping
Keys(obj) == {obj.v[i].k : i \in 1..Len(obj.v)}

\* Object.prototype.hasOwnProperty.call(obj, key)
HasOwn(obj, key) == obj.t = "obj" /\ key \in Keys(obj)

\* obj[key] of an own property
Get(obj, key) == obj.v[CHOOSE i \in 1..Len(obj.v) : obj.v[i].k = key].v

\* A slot of an array that holds an element (map and for-in skip the others).
NotHole(x) == x # JHole

\* The properties `for (const key in schema)` visits: those of a mapping, or
\* the filled indices of an array.
SchemaProps(sch) ==
    IF sch.t = "obj" THEN sch.v
    ELSE IF sch.t = "arr"
    THEN LET idx == [i \in 1..Len(sch.v) |-> Prop(ToString(i - 1), sch.v[i])]
             Filled(p) == NotHole(p.v)
         IN  SelectSeq(idx, Filled)
    ELSE <<>>

RECURSIVE pickBySchema(_, _)

\* Faulty variant: no hasOwnProperty test, a schema key the input lacks is
\* copied as an undefined value.
RECURSIVE PickKeysNoOwnTest(_, _, _)
PickKeysNoOwnTest(obj, props, i) ==
    IF i > Len(props) THEN <<>>
    ELSE LET key == props[i].k
             rule == props[i].v
             val == IF HasOwn(obj, key) THEN Get(obj, key) ELSE JHole
             rest == PickKeysNoOwnTest(obj, props, i + 1)
         IN  IF rule = JBool(TRUE) THEN <<Prop(key, val)>> \o rest
             ELSE IF IsObject(rule) THEN <<Prop(key, pickBySchema(val, rule))>> \o rest
             ELSE rest

\* Faulty variant: the nested rule is applied to obj, not to obj[key].
RECURSIVE PickKeysFromParent(_, _, _)
PickKeysFromParent(obj, props, i) ==
    IF i > Len(props) THEN <<>>
    ELSE LET key == props[i].k
             rule == props[i].v
             rest == PickKeysFromParent(obj, props, i + 1)
         IN  IF ~HasOwn(obj, key) THEN rest
             ELSE IF rule = JBool(TRUE) THEN <<Prop(key, Get(obj, key))>> \o rest
             ELSE IF IsObject(rule) THEN <<Prop(key, pickBySchema(obj, rule))>> \o rest
             ELSE rest

\* Faulty variant: any truthy rule that is not an object copies the value.
RECURSIVE PickKeysTruthyRule(_, _, _)
PickKeysTruthyRule(obj, props, i) ==
    IF i > Len(props) THEN <<>>
    ELSE LET key == props[i].k
             rule == props[i].v
             rest == PickKeysTruthyRule(obj, props, i + 1)
         IN  IF ~HasOwn(obj, key) THEN rest
             ELSE IF IsObject(rule) THEN <<Prop(key, pickBySchema(Get(obj, key), rule))>> \o rest
             ELSE IF ~Falsy(rule) THEN <<Prop(key, Get(obj, key))>> \o rest
             ELSE rest

\* The loop of pickBySchema over the schema's keys from the i-th on: the
\* properties it assigns to result, in the schema's order.
RECURSIVE PickKeys(_, _, _)
PickKeys(obj, props, i) ==
    IF i > Len(props) THEN <<>>
    ELSE LET key == props[i].k
             rule == props[i].v
             rest == PickKeys(obj, props, i + 1)
         IN  IF ~HasOwn(obj, key) THEN rest
             ELSE IF rule = JBool(TRUE) THEN <<Prop(key, Get(obj, key))>> \o rest
             ELSE IF IsObject(rule) THEN <<Prop(key, pickBySchema(Get(obj, key), rule))>> \o rest
             ELSE rest

\* Faulty variant: no Array.isArray branch, an array is treated as a mapping.
PickNoArrayBranch(obj, sch) ==
    IF ~IsObject(obj) THEN obj
    ELSE JObj(PickKeys(obj, SchemaProps(sch), 1))

\* pickBySchema(obj, schema): a primitive or null is returned as it is, an
\* array is mapped element by element (map keeps holes), a mapping gives
\* a new mapping built by the loop.
pickBySchema(obj, sch) ==
    IF ~IsObject(obj) THEN obj
    ELSE IF obj.t = "arr"
    THEN JArr([i \in 1..Len(obj.v) |->
                 IF NotHole(obj.v[i]) THEN pickBySchema(obj.v[i], sch) ELSE JHole])
    ELSE JObj(PickKeys(obj, SchemaProps(sch), 1))

\* flatItems.join(', '): the separator of an array's items.
ItemJoiner == ", "

\* Faulty variant: the values of a mapping are joined like items (as in the
\* earlier self-contained copy of the server).
LegacyValueJoiner == ", "

\* values.join(': '): the separator of the values of a mapping inside an array.
ValueJoiner == ": "

\* String(x) as Array.prototype.join applies it: null, undefined and an empty
\* slot give the empty string.
ToStr(x) ==
    IF x.t \in {"null", "hole"} THEN <<>>
    ELSE IF x.t = "bool" THEN (IF x.v THEN <<"true">> ELSE <<"false">>)
    ELSE IF x.t = "num" THEN <<ToString(x.v)>>
    ELSE IF x.t = "str" THEN x.v
    ELSE <<"[object Object]">>

\* items.join(sep), from the i-th item on
RECURSIVE Join(_, _, _)
Join(items, sep, i) ==
    IF i > Len(items) THEN <<>>
    ELSE IF i = Len(items) THEN ToStr(items[i])
    ELSE ToStr(items[i]) \o <<sep>> \o Join(items, sep, i + 1)

RECURSIVE flattenArraysInObject(_, _)

\* Faulty variant: a mapping outside an array is returned as it is.
FlattenNoDescent(input, inArray) ==
    IF input.t = "arr"
    THEN JStr(Join([i \in 1..Len(input.v) |->
                      IF NotHole(input.v[i]) THEN flattenArraysInObject(input.v[i], TRUE)
                      ELSE JHole], ItemJoiner, 1))
    ELSE IF input.t = "obj" /\ inArray
    THEN JStr(Join([i \in 1..Len(input.v) |->
                      flattenArraysInObject(input.v[i].v, TRUE)], ValueJoiner, 1))
    ELSE input

\* Faulty variant: inArray is not looked at, every mapping becomes a string.
FlattenEveryMapping(input, inArray) ==
    IF input.t = "arr"
    THEN JStr(Join([i \in 1..Len(input.v) |->
                      IF NotHole(input.v[i]) THEN flattenArraysInObject(input.v[i], TRUE)
                      ELSE JHole], ItemJoiner, 1))
    ELSE IF input.t = "obj"
    THEN JStr(Join([i \in 1..Len(input.v) |->
                      flattenArraysInObject(input.v[i].v, TRUE)], ValueJoiner, 1))
    ELSE input

\* flattenArraysInObject(input, inArray): an array becomes the join of its
\* flattened items (map leaves empty slots empty), a mapping inside an array
\* the join of its flattened values, a mapping outside an array a new
\* mapping with the same keys, anything else is returned as it is.
flattenArraysInObject(input, inArray) ==
    IF input.t = "arr"
    THEN JStr(Join([i \in 1..Len(input.v) |->
                      IF NotHole(input.v[i]) THEN flattenArraysInObject(input.v[i], TRUE)
                      ELSE JHole], ItemJoiner, 1))
    ELSE IF input.t = "obj"
    THEN IF inArray
         THEN JStr(Join([i \in 1..Len(input.v) |->
                           flattenArraysInObject(input.v[i].v, TRUE)], ValueJoiner, 1))
         ELSE JObj([i \in 1..Len(input.v) |->
                      Prop(input.v[i].k, flattenArraysInObject(input.v[i].v, FALSE))])
    ELSE input

----------------------------------------------------------------------------
(* Stand-alone tree transformations on bounded JSON trees *)

Prims == {JNull, JBool(FALSE), JNum(0), JNum(1), JStr(<<>>), JStr(<<"x">>)}
Leaves == Prims \cup {JObj(<<>>), JArr(<<>>)}

\* Trees as JSON.parse builds them, with containers nested at most d deep
\* below the root: an object has an optional primitive property a, an
\* optional nested property c and an optional __typename; an array has a
\* primitive and a nested element.
RECURSIVE TreesAt(_)
TreesAt(d) ==
    IF d = 0 THEN Leaves
    ELSE LET sub == TreesAt(d - 1)
             optA == {<<>>} \cup {<<Prop("a", x)>> : x \in Prims}
             optC == {<<>>} \cup {<<Prop("c", x)>> : x \in sub}
             optT == {<<>>, <<Prop("__typename", JStr(<<"T">>))>>}
         IN  Leaves
             \cup {JObj(pa \o pc \o pt) : pa \in optA, pc \in optC, pt \in optT}
             \cup {JArr(<<x, y>>) : x \in Prims, y \in sub}

\* {a: 0, b: "x", c: {d: null, e: "y"}, __typename: "T"}
ScenarioA ==
    JObj(<< Prop("a", JNum(0)), Prop("b", JStr(<<"x">>)),
            Prop("c", JObj(<< Prop("d", JNull), Prop("e", JStr(<<"y">>)) >>)),
            Prop("__typename", JStr(<<"T">>)) >>)

\* {b: "x", c: {e: "y"}}
ScenarioAPruned ==
    JObj(<< Prop("b", JStr(<<"x">>)), Prop("c", JObj(<< Prop("e", JStr(<<"y">>)) >>)) >>)

InitTree ==
    /\ env = "unset"
    /\ argv = {}
    /\ robotsTxtContent = <<>>
    /\ srv = "starting"
    /\ load = [l \in Owners |-> "none"]
    /\ call = [c \in Calls |-> IdleCall]
    /\ pin = NoPolicyInput
    /\ pout = NoPolicyOutput
    /\ tin \in TreesAt(MaxDepth) \cup {ScenarioA}
    /\ schema = NoTree
    /\ tout = [NoTreeOutput EXCEPT !.pc = "ready"]

\* cleanObject(tin); tout.clean.value is the tree as the call leaves it.
Prune ==
    /\ tout.pc = "ready"
    /\ tout' = [tout EXCEPT !.pc = "pruned", !.clean = cleanObject(tin)]
    /\ UNCHANGED <<serverVars, policyVars, tin, schema>>

\* cleanObject again, on the tree the first call left.
PruneAgain ==
    /\ tout.pc = "pruned"
    /\ ~tout.clean.threw
    /\ tout' = [tout EXCEPT !.pc = "repruned", !.clean2 = cleanObject(tout.clean.value)]
    /\ UNCHANGED <<serverVars, policyVars, tin, schema>>

NextTree == Prune \/ PruneAgain

SpecTree == InitTree /\ [][NextTree]_vars

\* No mapping of x, at any depth and through arrays, has a property whose
\* value is falsy or whose key is __typename.
RECURSIVE NoFalsyProps(_)
NoFalsyProps(x) ==
    IF x.t = "obj"
    THEN \A i \in 1..Len(x.v) :
            /\ ~Falsy(x.v[i].v)
            /\ x.v[i].k # "__typename"
            /\ NoFalsyProps(x.v[i].v)
    ELSE IF x.t = "arr"
    THEN \A i \in 1..Len(x.v) : NoFalsyProps(x.v[i])
    ELSE TRUE

\* C10: after cleanObject on an object or array, no mapping reachable from the
\* root has a key whose value is falsy or whose name is __typename, and
\* {a: 0, b: "x", c: {d: null, e: "y"}, __typename: "T"} becomes
\* {b: "x", c: {e: "y"}}.
C10_PrunedHasNoFalsyKeys ==
    (tout.pc = "pruned" /\ IsObject(tin))
        => /\ ~tout.clean.threw
           /\ NoFalsyProps(tout.clean.value)
           /\ tin = ScenarioA => tout.clean.value = ScenarioAPruned

\* C10 witness: an array whose second element is an object with a falsy
\* value or a __typename has been pruned, and so has Scenario A's shape: an
\* object with a nested object that loses a property.
C10_Witness ==
    /\ tout.pc = "pruned" /\ tin.t = "arr" /\ Len(tin.v) = 2
    /\ Falsy(tin.v[1])
    /\ tin.v[2].t = "obj" /\ ~NoFalsyProps(tin.v[2])
    /\ tout.clean.value # tin

\* C11: cleanObject is idempotent: applied to the tree an earlier cleanObject
\* left, it returns normally and changes nothing.
C11_PruneIdempotent ==
    tout.pc = "repruned"
        => /\ ~tout.clean2.threw
           /\ tout.clean2.value = tout.clean.value

\* C11 witness: the first call emptied a nested object and left a hole in an
\* array, and the second call has run on that tree.
C11_Witness ==
    /\ tout.pc = "repruned" /\ tin.t = "arr" /\ Len(tin.v) = 2
    /\ tout.clean.value.v[1] = JHole
    /\ tin.v[2].t = "obj" /\ tin.v[2].v # <<>>
    /\ tout.clean.value.v[2] = JObj(<<>>)

----------------------------------------------------------------------------
(* Stand-alone pickBySchema on bounded trees and schemas *)

PickPrims == {JNull, JNum(1)}
PickLeaves == PickPrims \cup {JObj(<<>>), JArr(<<>>)}

\* Input trees nested at most d deep: a mapping has an optional primitive
\* property a and an optional nested property c, an array a primitive and
\* a nested element.
RECURSIVE PickTreesAt(_)
PickTreesAt(d) ==
    IF d = 0 THEN PickLeaves
    ELSE LET sub == PickTreesAt(d - 1)
             optA == {<<>>} \cup {<<Prop("a", x)>> : x \in PickPrims}
             optC == {<<>>} \cup {<<Prop("c", x)>> : x \in sub}
         IN  PickLeaves
             \cup {JObj(pa \o pc) : pa \in optA, pc \in optC}
             \cup {JArr(<<x, y>>) : x \in PickPrims, y \in sub}

\* Schemas nested at most d deep: key a is absent or true, key c is absent,
\* true or a nested schema.
RECURSIVE SchemasAt(_)
SchemasAt(d) ==
    IF d = 0 THEN {JObj(<<>>)}
    ELSE LET sub == SchemasAt(d - 1)
             optA == {<<>>, <<Prop("a", JBool(TRUE))>>}
             optC == {<<>>, <<Prop("c", JBool(TRUE))>>} \cup {<<Prop("c", x)>> : x \in sub}
         IN  {JObj(pa \o pc) : pa \in optA, pc \in optC}

\* {a: 1, b: 2, c: {d: 3, e: 4}}
ScenarioB ==
    JObj(<< Prop("a", JNum(1)), Prop("b", JNum(2)),
            Prop("c", JObj(<< Prop("d", JNum(3)), Prop("e", JNum(4)) >>)) >>)

\* {a: true, c: {d: true}}
ScenarioBSchema ==
    JObj(<< Prop("a", JBool(TRUE)), Prop("c", JObj(<< Prop("d", JBool(TRUE)) >>)) >>)

\* {a: 1, c: {d: 3}}
ScenarioBPicked ==
    JObj(<< Prop("a", JNum(1)), Prop("c", JObj(<< Prop("d", JNum(3)) >>)) >>)

\* Rules that are neither true nor an object.
BadRules == {JBool(FALSE), JNull, JNum(1), JStr(<<"x">>)}

\* Schemas with such a rule for key a, next to a good or a nested bad rule for key c.
MalformedSchemas ==
    LET optC == {<<>>, <<Prop("c", JBool(TRUE))>>}
                  \cup {<<Prop("c", JObj(<<Prop("a", bad)>>))>> : bad \in BadRules}
    IN  {JObj(<<Prop("a", bad)>> \o pc) : bad \in BadRules, pc \in optC}

PickInputs ==
    (PickTreesAt(MaxDepth) \X (SchemasAt(MaxDepth) \cup MalformedSchemas))
        \cup {<<ScenarioB, ScenarioBSchema>>}

InitPick ==
    /\ env = "unset"
    /\ argv = {}
    /\ robotsTxtContent = <<>>
    /\ srv = "starting"
    /\ load = [l \in Owners |-> "none"]
    /\ call = [c \in Calls |-> IdleCall]
    /\ pin = NoPolicyInput
    /\ pout = NoPolicyOutput
    /\ \E inp \in PickInputs : tin = inp[1] /\ schema = inp[2]
    /\ tout = [NoTreeOutput EXCEPT !.pc = "ready"]

\* pickBySchema(tin, schema)
Pick ==
    /\ tout.pc = "ready"
    /\ tout' = [tout EXCEPT !.pc = "picked", !.pick = pickBySchema(tin, schema)]
    /\ UNCHANGED <<serverVars, policyVars, tin, schema>>

\* pickBySchema again, on the value the first call returned.
PickAgain ==
    /\ tout.pc = "picked"
    /\ tout' = [tout EXCEPT !.pc = "repicked", !.pick2 = pickBySchema(tout.pick, schema)]
    /\ UNCHANGED <<serverVars, policyVars, tin, schema>>

NextPick == Pick \/ PickAgain

SpecPick == InitPick /\ [][NextPick]_vars

\* C12: applied to a mapping, pickBySchema returns a mapping whose keys are
\* keys of the schema and of the input; a schema key the input lacks gives
\* no key; pickBySchema({a:1,b:2,c:{d:3,e:4}}, {a:true,c:{d:true}}) is
\* {a:1,c:{d:3}}.
C12_PickedKeysSubset ==
    (tout.pc = "picked" /\ tin.t = "obj")
        => /\ tout.pick.t = "obj"
           /\ Keys(tout.pick) \subseteq (Keys(schema) \cap Keys(tin))
           /\ (tin = ScenarioB /\ schema = ScenarioBSchema) => tout.pick = ScenarioBPicked

\* C12 witness: the schema names a key the input lacks, and a key was picked.
C12_Witness ==
    /\ tout.pc = "picked" /\ tin.t = "obj"
    /\ Keys(schema) \ Keys(tin) # {}
    /\ tout.pick.v # <<>>

\* C13: for a fixed schema, pickBySchema applied to its own result returns
\* that result.
C13_PickIdempotent ==
    tout.pc = "repicked" => tout.pick2 = tout.pick

\* C13 witness: the first call dropped something and kept a nested mapping
\* with a key, and the second call has run.
C13_Witness ==
    /\ tout.pc = "repicked" /\ tin.t = "obj"
    /\ tout.pick # tin
    /\ \E i \in 1..Len(tout.pick.v) :
          tout.pick.v[i].v.t = "obj" /\ tout.pick.v[i].v.v # <<>>

----------------------------------------------------------------------------
(* Stand-alone flattenArraysInObject on bounded trees *)

\* [{x: 1, y: 2}, {x: 3, y: 4}]
ScenarioC ==
    JArr(<< JObj(<< Prop("x", JNum(1)), Prop("y", JNum(2)) >>),
            JObj(<< Prop("x", JNum(3)), Prop("y", JNum(4)) >>) >>)

InitFlatten ==
    /\ env = "unset"
    /\ argv = {}
    /\ robotsTxtContent = <<>>
    /\ srv = "starting"
    /\ load = [l \in Owners |-> "none"]
    /\ call = [c \in Calls |-> IdleCall]
    /\ pin = NoPolicyInput
    /\ pout = NoPolicyOutput
    /\ tin \in TreesAt(MaxDepth) \cup {ScenarioC}
    /\ schema = NoTree
    /\ tout = [NoTreeOutput EXCEPT !.pc = "ready"]

\* flattenArraysInObject(tin), inArray left at its default
Flatten ==
    /\ tout.pc = "ready"
    /\ tout' = [tout EXCEPT !.pc = "flattened", !.flat = flattenArraysInObject(tin, FALSE)]
    /\ UNCHANGED <<serverVars, policyVars, tin, schema>>

NextFlatten == Flatten

SpecFlatten == InitFlatten /\ [][NextFlatten]_vars

\* x is an array or holds one at some depth.
RECURSIVE HasArray(_)
HasArray(x) ==
    \/ x.t = "arr"
    \/ x.t = "obj" /\ \E i \in 1..Len(x.v) : HasArray(x.v[i].v)

\* C14: the value flattenArraysInObject returns holds no array at any depth.
C14_FlatHasNoArray ==
    tout.pc = "flattened" => ~HasArray(tout.flat)

\* C14 witness: the input was a mapping with a property holding an array
\* whose second element is an array again.
C14_Witness ==
    /\ tout.pc = "flattened" /\ tin.t = "obj"
    /\ \E i \in 1..Len(tin.v) :
          /\ tin.v[i].v.t = "arr" /\ Len(tin.v[i].v.v) = 2
          /\ tin.v[i].v.v[2].t = "arr"

\* C15: a value that holds no array at any depth is returned structurally
\* equal to the input.
C15_NoArrayUnchanged ==
    (tout.pc = "flattened" /\ ~HasArray(tin)) => tout.flat = tin

\* C15 witness: a mapping without arrays, with a nested mapping that has a
\* property, has been flattened.
C15_Witness ==
    /\ tout.pc = "flattened" /\ tin.t = "obj" /\ ~HasArray(tin)
    /\ \E i \in 1..Len(tin.v) : tin.v[i].v.t = "obj" /\ Len(tin.v[i].v.v) >= 2

\* The values of a mapping, in key order.
ValuesOf(obj) == [i \in 1..Len(obj.v) |-> obj.v[i].v]

\* C16: an array becomes its flattened elements joined by ", "; a mapping
\* that is an element of an array becomes its flattened values, keys
\* dropped, in key order, joined by ": "; [{x:1,y:2},{x:3,y:4}] becomes
\* "1: 2, 3: 4".
C16_JoinerConvention ==
    tout.pc = "flattened"
        => /\ tin = ScenarioC
                => tout.flat = JStr(<<"1", ": ", "2", ", ", "3", ": ", "4">>)
           /\ (tin.t = "arr" /\ Len(tin.v) = 2 /\ ~IsObject(tin.v[1]) /\ ~IsObject(tin.v[2]))
                => tout.flat = JStr(ToStr(tin.v[1]) \o <<", ">> \o ToStr(tin.v[2]))
           /\ (tin.t = "arr" /\ Len(tin.v) = 2 /\ ~IsObject(tin.v[1]) /\ tin.v[2].t = "obj"
                  /\ \A j \in 1..Len(tin.v[2].v) : ~IsObject(tin.v[2].v[j].v))
                => tout.flat = JStr(ToStr(tin.v[1]) \o <<", ">>
                                      \o Join(ValuesOf(tin.v[2]), ": ", 1))

\* C16 witness: an array of a primitive and a mapping with at least two
\* primitive values has been flattened.
C16_Witness ==
    /\ tout.pc = "flattened" /\ tin.t = "arr" /\ Len(tin.v) = 2
    /\ tin.v[2].t = "obj" /\ Len(tin.v[2].v) >= 2
    /\ \A j \in 1..Len(tin.v[2].v) : ~IsObject(tin.v[2].v[j].v)
    /\ tin.v[1] = JNum(1)

----------------------------------------------------------------------------
(* Further properties of cleanObject *)

\* No mapping of x, at any depth and through arrays, has a property whose
\* value is an empty array or an empty mapping.
RECURSIVE NoEmptyContainerProps(_)
NoEmptyContainerProps(x) ==
    IF x.t = "obj"
    THEN \A i \in 1..Len(x.v) :
            /\ ~(IsObject(x.v[i].v) /\ x.v[i].v.v = <<>>)
            /\ NoEmptyContainerProps(x.v[i].v)
    ELSE IF x.t = "arr"
    THEN \A i \in 1..Len(x.v) : NoEmptyContainerProps(x.v[i])
    ELSE TRUE

\* C21: after cleanObject no reachable key holds an empty array or an empty
\* mapping, one that became empty by the pruning included.
C21_PrunedHasNoEmptyContainers ==
    (tout.pc = "pruned" /\ IsObject(tin)) => NoEmptyContainerProps(tout.clean.value)

\* C21 amended: cleanObject removes the keys whose value is falsy for
\* JavaScript (null, undefined, "", 0, false) or whose name is __typename;
\* an array or a mapping is truthy also when empty, so every other key that
\* holds one is kept, holding the same kind of container, also when the
\* pruning of its own keys left it empty.
C21_ContainerKeysKept ==
    (tout.pc = "pruned" /\ tin.t = "obj")
        => \A i \in 1..Len(tin.v) :
              (IsObject(tin.v[i].v) /\ tin.v[i].k # "__typename")
                 => /\ HasOwn(tout.clean.value, tin.v[i].k)
                    /\ Get(tout.clean.value, tin.v[i].k).t = tin.v[i].v.t

\* C21 witness: a nested mapping had keys, all of them were pruned, and it
\* is still there, empty.
C21_Witness ==
    /\ tout.pc = "pruned" /\ tin.t = "obj"
    /\ HasOwn(tin, "c") /\ Get(tin, "c").t = "obj" /\ Get(tin, "c").v # <<>>
    /\ HasOwn(tout.clean.value, "c") /\ Get(tout.clean.value, "c") = JObj(<<>>)

\* C22: cleanObject does not filter the elements of an array: the array
\* keeps its length and every position keeps its element, falsy ones too.
C22_ArrayElementsKept ==
    (tout.pc = "pruned" /\ tin.t = "arr")
        => /\ Len(tout.clean.value.v) = Len(tin.v)
           /\ \A i \in 1..Len(tin.v) :
                 ~IsObject(tin.v[i]) => tout.clean.value.v[i] = tin.v[i]

\* C23: cleanObject called with a primitive or with null returns normally
\* and changes nothing.
C23_PrimitiveOrNullNoOp ==
    (tout.pc = "pruned" /\ ~IsObject(tin))
        => ~tout.clean.threw /\ tout.clean.value = tin

----------------------------------------------------------------------------
(* Further properties of pickBySchema *)

\* C24: on an array pickBySchema returns an array of the same length whose
\* element i is pickBySchema of element i with the same schema (a primitive
\* element is the element itself); on a primitive or null it returns the
\* value, whatever the schema.
C24_PickMapsArrays ==
    tout.pc = "picked"
        => /\ tin.t = "arr"
                => /\ tout.pick.t = "arr"
                   /\ Len(tout.pick.v) = Len(tin.v)
                   /\ \A i \in 1..Len(tin.v) :
                         /\ tout.pick.v[i] = pickBySchema(tin.v[i], schema)
                         /\ ~IsObject(tin.v[i]) => tout.pick.v[i] = tin.v[i]
                         /\ tin.v[i].t = "obj"
                               => /\ tout.pick.v[i].t = "obj"
                                  /\ Keys(tout.pick.v[i]) \subseteq Keys(schema)
           /\ ~IsObject(tin) => tout.pick = tin

\* C24 witness: the second element of an array was a mapping, and the call
\* dropped one of its keys and kept another.
C24_Witness ==
    /\ tout.pc = "picked" /\ tin.t = "arr" /\ Len(tin.v) = 2
    /\ tin.v[2].t = "obj"
    /\ tout.pick.v[2] # tin.v[2] /\ tout.pick.v[2].v # <<>>

\* A rule that is true or an object.
GoodRule(p) == p.v = JBool(TRUE) \/ IsObject(p.v)

\* The schema without its entries whose rule is neither true nor an object,
\* at every depth.
RECURSIVE WithoutBadRules(_)
WithoutBadRules(sch) ==
    IF sch.t # "obj" THEN sch
    ELSE LET good == SelectSeq(sch.v, GoodRule)
         IN  JObj([i \in 1..Len(good) |-> Prop(good[i].k, WithoutBadRules(good[i].v))])

\* C25: a schema entry whose rule is neither true nor an object counts as
\* absent: the result has no such key and is the result for the schema
\* without these entries.
C25_BadRuleIsAbsent ==
    tout.pc = "picked"
        => /\ tout.pick = pickBySchema(tin, WithoutBadRules(schema))
           /\ tin.t = "obj"
                => \A i \in 1..Len(schema.v) :
                      ~GoodRule(schema.v[i]) => ~HasOwn(tout.pick, schema.v[i].k)

\* C25 witness: the input has keys a and c, the rule for a is neither true
\* nor an object, and the result has c but not a.
C25_Witness ==
    /\ tout.pc = "picked" /\ tin.t = "obj"
    /\ HasOwn(tin, "a") /\ HasOwn(tin, "c")
    /\ HasOwn(schema, "a") /\ Get(schema, "a") \in BadRules
    /\ HasOwn(tout.pick, "c") /\ ~HasOwn(tout.pick, "a")

----------------------------------------------------------------------------
(* Further properties of flattenArraysInObject *)

\* Wherever input holds an array, at any path through keys and indices,
\* output holds a string at the same path.
RECURSIVE ArraysAreStringsAt(_, _)
ArraysAreStringsAt(input, output) ==
    IF input.t = "arr"
    THEN /\ output.t = "str"
         /\ \A i \in 1..Len(input.v) :
               HasArray(input.v[i])
                  => /\ output.t = "arr" /\ i <= Len(output.v)
                     /\ ArraysAreStringsAt(input.v[i], output.v[i])
    ELSE IF input.t = "obj"
    THEN \A i \in 1..Len(input.v) :
            HasArray(input.v[i].v)
               => /\ HasOwn(output, input.v[i].k)
                  /\ ArraysAreStringsAt(input.v[i].v, Get(output, input.v[i].k))
    ELSE TRUE

\* C27: every array of the input, at every depth, inside other arrays too,
\* is a string in the output at the array's own path.
C27_EveryArrayIsStringInPlace ==
    tout.pc = "flattened" => ArraysAreStringsAt(tin, tout.flat)

\* Along the paths that go through mapping keys only, output has the keys
\* of input, and a string where input has an array.
RECURSIVE KeyPathArraysAreStrings(_, _)
KeyPathArraysAreStrings(input, output) ==
    IF input.t = "arr" THEN output.t = "str"
    ELSE IF input.t = "obj"
    THEN /\ output.t = "obj"
         /\ \A i \in 1..Len(input.v) :
               /\ HasOwn(output, input.v[i].k)
               /\ KeyPathArraysAreStrings(input.v[i].v, Get(output, input.v[i].k))
    ELSE TRUE

\* C27 amended: every array that is the input itself or is reached through
\* mapping keys only becomes a string at its own path; an array or a mapping
\* inside an array has no position of its own in the output, its text is a
\* part of the string of the outermost enclosing array.
C27_KeyPathArrayIsStringInPlace ==
    tout.pc = "flattened"
        => /\ KeyPathArraysAreStrings(tin, tout.flat)
           /\ (tin.t = "arr" /\ Len(tin.v) = 2 /\ tin.v[2].t = "arr")
                => tout.flat = JStr(ToStr(flattenArraysInObject(tin.v[1], TRUE)) \o <<", ">>
                                      \o flattenArraysInObject(tin.v[2], TRUE).v)

\* C27 witness: key c of the input held an array of 1 and a mapping, and
\* the output holds one string at c.
C27_Witness ==
    /\ tout.pc = "flattened" /\ tin.t = "obj" /\ HasOwn(tin, "c")
    /\ Get(tin, "c").t = "arr" /\ Len(Get(tin, "c").v) = 2
    /\ Get(tin, "c").v[1] = JNum(1) /\ Get(tin, "c").v[2].t = "obj"
    /\ Get(tout.flat, "c") = JStr(<<"1", ", ">>)

----------------------------------------------------------------------------
(* Search result extraction: handleAirbnbSearch once the page data is parsed *)

BASE_URL == <<"https://www.airbnb.com">>

\* allowSearchResultSchema, its entries for the keys the pages below use.
allowSearchResultSchema ==
    JObj(<< Prop("demandStayListing", JObj(<< Prop("id", JBool(TRUE)) >>)),
            Prop("badges", JObj(<< Prop("text", JBool(TRUE)) >>)),
            Prop("listingParamOverrides", JBool(TRUE)) >>)

\* Base64 text is a sequence of groups of characters; the text each group
\* stands for.
B64Groups == {"U3RheUxpc3Rpbmc6", "MTIz"}
B64Decode(g) == IF g = "U3RheUxpc3Rpbmc6" THEN <<"StayListing", ":">> ELSE <<"123">>

RECURSIVE B64DecodeAll(_)
B64DecodeAll(s) == IF s = <<>> THEN <<>> ELSE B64Decode(Head(s)) \o B64DecodeAll(Tail(s))

\* atob(x): x is converted to a string first (undefined gives "undefined",
\* which is not base64); text that is not base64 throws.
atob(x) ==
    IF x.t = "str" /\ \A i \in 1..Len(x.v) : x.v[i] \in B64Groups
    THEN [threw |-> FALSE, value |-> B64DecodeAll(x.v)]
    ELSE [threw |-> TRUE, value |-> <<>>]

\* s.split(":")[1]: the text between the first and the second colon,
\* undefined when s has no colon.
SecondPart(s) ==
    IF ~\E i \in 1..Len(s) : s[i] = ":" THEN JHole
    ELSE LET i == CHOOSE k \in 1..Len(s) : s[k] = ":" /\ \A j \in 1..(k - 1) : s[j] # ":"
             rest == SubSeq(s, i + 1, Len(s))
         IN  IF \E k \in 1..Len(rest) : rest[k] = ":"
             THEN LET n == CHOOSE k \in 1..Len(rest) :
                              rest[k] = ":" /\ \A j \in 1..(k - 1) : rest[j] # ":"
                  IN  JStr(SubSeq(rest, 1, n - 1))
             ELSE JStr(rest)

\* The second map callback: atob(result.demandStayListing.id).split(":")[1]
\* and the url built from it. Reading id of an undefined demandStayListing
\* throws; a missing id is atob(undefined).
ExtractItem(result) ==
    IF ~HasOwn(result, "demandStayListing")
    THEN [threw |-> TRUE, item |-> [id |-> JHole, url |-> <<>>]]
    ELSE LET dsl == Get(result, "demandStayListing")
             idv == IF HasOwn(dsl, "id") THEN Get(dsl, "id") ELSE JHole
             dec == atob(idv)
             id == IF dec.threw THEN JHole ELSE SecondPart(dec.value)
         IN  [threw |-> dec.threw,
              item |-> [id |-> id, url |-> BASE_URL \o <<"/rooms/">>
                                             \o (IF id = JHole THEN <<"undefined">> ELSE id.v)]]

\* A page's empty slot in the output array.
NoItem == [id |-> JHole, url |-> <<>>]

\* The result of the call for the flattened results: the parse-error result
\* if a callback threw, else the list of items (map skips empty slots).
SearchResultOf(flat) ==
    IF \E i \in 1..Len(flat.v) : NotHole(flat.v[i]) /\ ExtractItem(flat.v[i]).threw
    THEN [isError |-> TRUE, error |-> "Failed to parse search results", items |-> <<>>]
    ELSE [isError |-> FALSE, error |-> "",
          items |-> [i \in 1..Len(flat.v) |->
                       IF NotHole(flat.v[i]) THEN ExtractItem(flat.v[i]).item ELSE NoItem]]

IdOk == JStr(<<"U3RheUxpc3Rpbmc6", "MTIz">>)       \* "StayListing:123"
IdNoColon == JStr(<<"MTIz">>)                      \* "123"
IdNotBase64 == JStr(<<"%">>)

\* Search results as the page holds them.
ResultTrees ==
    LET optD == {<<>>} \cup {<<Prop("demandStayListing",
                                    JObj(<<Prop("id", x), Prop("__typename", JStr(<<"D">>))>>))>> :
                                x \in {IdOk, IdNoColon, IdNotBase64, JStr(<<>>)}}
        optL == {<<>>,
                 <<Prop("listingParamOverrides", JArr(<<JNum(1), JNum(0), JNum(2)>>))>>,
                 <<Prop("listingParamOverrides", JArr(<<JNum(0), JStr(<<"x">>)>>))>>}
        optB == {<<>>,
                 <<Prop("badges", JArr(<< JObj(<<Prop("text", JStr(<<"new">>)), Prop("style", JNum(1))>>),
                                          JObj(<<Prop("text", JStr(<<>>))>>) >>))>>}
    IN  {JObj(pd \o pl \o pb \o <<Prop("title", JStr(<<"t">>))>>) :
            pd \in optD, pl \in optL, pb \in optB}

\* clientData.data.presentation.staysSearch.results
SearchPages ==
    {JObj(<<Prop("searchResults", JArr(rs))>>) :
        rs \in UNION {[1..n -> ResultTrees \cup {JNull}] : n \in 0..MaxResults}}

InitSearch ==
    /\ env = "unset"
    /\ argv = {}
    /\ robotsTxtContent = <<>>
    /\ srv = "starting"
    /\ load = [l \in Owners |-> "none"]
    /\ call = [c \in Calls |-> IdleCall]
    /\ pin = NoPolicyInput
    /\ pout = NoPolicyOutput
    /\ tin \in SearchPages
    /\ schema = allowSearchResultSchema
    /\ tout = [NoTreeOutput EXCEPT !.pc = "ready"]

\* cleanObject(results); tout.clean.value is results as the call leaves it.
SearchPrune ==
    /\ tout.pc = "ready"
    /\ tout' = [tout EXCEPT !.pc = "pruned", !.clean = cleanObject(tin)]
    /\ UNCHANGED <<serverVars, policyVars, tin, schema>>

\* results.searchResults.map(...): the pickBySchema calls of the first callback.
SearchPick ==
    /\ tout.pc = "pruned"
    /\ LET rs == Get(tout.clean.value, "searchResults")
       IN  tout' = [tout EXCEPT !.pc = "picked",
                                !.pick = JArr([i \in 1..Len(rs.v) |->
                                                 IF NotHole(rs.v[i])
                                                 THEN pickBySchema(rs.v[i], schema)
                                                 ELSE JHole])]
    /\ UNCHANGED <<serverVars, policyVars, tin, schema>>

\* Faulty variant: the flattening overwrites the value it was given.
SearchFlattenInPlace ==
    /\ tout.pc = "picked"
    /\ LET flat == JArr([i \in 1..Len(tout.pick.v) |->
                           IF NotHole(tout.pick.v[i])
                           THEN flattenArraysInObject(tout.pick.v[i], FALSE)
                           ELSE JHole])
       IN  tout' = [tout EXCEPT !.pc = "flattened", !.flat = flat, !.pick = flat]
    /\ UNCHANGED <<serverVars, policyVars, tin, schema>>

\* The flattenArraysInObject calls of the first callback, on what
\* pickBySchema returned.
SearchFlatten ==
    /\ tout.pc = "picked"
    /\ tout' = [tout EXCEPT !.pc = "flattened",
                             !.flat = JArr([i \in 1..Len(tout.pick.v) |->
                                              IF NotHole(tout.pick.v[i])
                                              THEN flattenArraysInObject(tout.pick.v[i], FALSE)
                                              ELSE JHole])]
    /\ UNCHANGED <<serverVars, policyVars, tin, schema>>

\* The second map and the return: the parse-error result or the success result.
SearchExtract ==
    /\ tout.pc = "flattened"
    /\ tout' = [tout EXCEPT !.pc = "extracted", !.result = SearchResultOf(tout.flat)]
    /\ UNCHANGED <<serverVars, policyVars, tin, schema>>

NextSearch == SearchPrune \/ SearchPick \/ SearchFlatten \/ SearchExtract

SpecSearch == InitSearch /\ [][NextSearch]_vars

Segments(s) == 1 + Cardinality({k \in 1..Len(s) : s[k] = ", "})

\* C29: through cleanObject, pickBySchema and flattenArraysInObject an array
\* with falsy elements keeps its element count: cleanObject leaves a hole
\* for each falsy element, and the flattened string has one segment per
\* element of the original array, an empty one for each hole; [1, 0, 2]
\* ends as "1, , 2".
C29_HolesBecomeEmptySegments ==
    tout.pc = "flattened"
        => LET rs == Get(tin, "searchResults").v
               pruned == Get(tout.clean.value, "searchResults").v
           IN  /\ Len(pruned) = Len(rs) /\ Len(tout.flat.v) = Len(rs)
               /\ \A i \in 1..Len(rs) :
                     HasOwn(rs[i], "listingParamOverrides")
                        => LET orig == Get(rs[i], "listingParamOverrides").v
                               left == Get(pruned[i], "listingParamOverrides").v
                               text == Get(tout.flat.v[i], "listingParamOverrides")
                           IN  /\ Len(left) = Len(orig)
                               /\ \A j \in 1..Len(orig) :
                                     left[j] = IF Falsy(orig[j]) THEN JHole ELSE orig[j]
                               /\ text.t = "str" /\ Segments(text.v) = Len(orig)
                               /\ orig = <<JNum(1), JNum(0), JNum(2)>>
                                     => text = JStr(<<"1", ", ", ", ", "2">>)

\* C29 witness: a result held [1, 0, 2] and the flattened result holds
\* "1, , 2".
C29_Witness ==
    /\ tout.pc = "flattened"
    /\ \E i \in 1..Len(tout.flat.v) :
          /\ HasOwn(Get(tin, "searchResults").v[i], "listingParamOverrides")
          /\ Get(Get(tin, "searchResults").v[i], "listingParamOverrides")
                = JArr(<<JNum(1), JNum(0), JNum(2)>>)
          /\ Get(tout.flat.v[i], "listingParamOverrides") = JStr(<<"1", ", ", ", ", "2">>)

\* The result of the page has a demandStayListing.id that decodes to text
\* with an id after the colon.
YieldsId(r) ==
    /\ HasOwn(r, "demandStayListing")
    /\ HasOwn(Get(r, "demandStayListing"), "id")
    /\ Get(Get(r, "demandStayListing"), "id") = IdOk

\* C30: the extraction is all-or-nothing: the call returns the parse-error
\* result, without any item, if some result of the page lacks a decodable
\* demandStayListing.id, and the success result only when every result
\* yielded an id and a url.
C30_AllOrNothing ==
    tout.pc = "extracted"
        => LET rs == Get(tin, "searchResults").v
           IN  /\ tout.result.isError <=> \E i \in 1..Len(rs) : ~YieldsId(rs[i])
               /\ tout.result.isError => tout.result.items = <<>>
               /\ ~tout.result.isError
                     => \A i \in 1..Len(rs) :
                           /\ tout.result.items[i].id # JHole
                           /\ tout.result.items[i].url = BASE_URL \o <<"/rooms/">>
                                                            \o tout.result.items[i].id.v

====
